---- MODULE Spec2Model ----
(***************************************************************************)
(* A model of the Mapbox Vector Tile encoder of mvt.go.                    *)
(*                                                                         *)
(* State: the Tile -> Layer -> Feature graph that the builder operations   *)
(* grow, and the value returned by the last call when it was Render.       *)
(* Byte buffers are sequences of 0..255.  Go strings are sequences of      *)
(* bytes.  float64 coordinates are modelled by integers (every integer of  *)
(* the model is exactly representable, and x / 256.0 * extent is then      *)
(* exact, so int64(...) is truncation toward zero of x*extent/256).        *)
(* uint64 / int64 quantities stay far below 2^31 in every explored state,  *)
(* so no 64-bit wrap-around can occur in the explored part.                *)
(***************************************************************************)
EXTENDS Integers, Sequences, FiniteSets, TLC

VARIABLES layers, out, rendered

vars == <<layers, out, rendered>>

-----------------------------------------------------------------------------
(* Program constants                                                       *)

moveTo == 1
lineTo == 2
closePath == 7

Unknown == 0
Point == 1
LineString == 2
Polygon == 3

DefaultExtent == 4096
TileSize == 256

-----------------------------------------------------------------------------
(* Evaluated(v) is TRUE.  TLC evaluates operator arguments on demand; a     *)
(* loop that compares its state on entry holds it as a value before the    *)
(* iteration starts, as the code does, and not as a chain of pending       *)
(* iterations.                                                             *)

Evaluated(v) == v = v

-----------------------------------------------------------------------------
(* Primitive codec                                                         *)

RECURSIVE PutUvarint(_)
\* binary.PutUvarint: base-128 groups, least significant first, continuation
\* bit on all but the last byte.
PutUvarint(x) ==
    IF x < 128 THEN <<x>>
    ELSE <<(x % 128) + 128>> \o PutUvarint(x \div 128)

\* binary.PutVarint: ux := uint64(x) << 1; if x < 0 { ux = ^ux }.
ZigZag(x) == IF x < 0 THEN (-2 * x) - 1 ELSE 2 * x

appendUvarint(pb, n) == pb \o PutUvarint(n)

appendVarint(pb, n) == pb \o PutUvarint(ZigZag(n))

appendString(pb, s) == appendUvarint(pb, Len(s)) \o s

commandInteger(id, count) == (id % 8) + (count * 8)

-----------------------------------------------------------------------------
(* Tag values: the dynamic type of the interface{} and its payload.        *)
(* s: the bytes of a string or []byte; n: an integer (bool: 0/1);          *)
(* f: a float as <<sign, m, e>> meaning (-1)^sign * m * 2^e, 0 <= m < 256. *)

Val(t, s, n, f) == [t |-> t, s |-> s, n |-> n, f |-> f]
StringVal(s) == Val("string", s, 0, <<0, 0, 0>>)
BytesVal(s) == Val("bytes", s, 0, <<0, 0, 0>>)
IntVal(t, n) == Val(t, <<>>, n, <<0, 0, 0>>)
BoolVal(b) == Val("bool", <<>>, IF b THEN 1 ELSE 0, <<0, 0, 0>>)
FloatVal(t, sign, m, e) == Val(t, <<>>, 0, <<sign, m, e>>)

RECURSIVE Pow2(_)
Pow2(n) == IF n = 0 THEN 1 ELSE 2 * Pow2(n - 1)

\* Position of the highest set bit of m > 0.
RECURSIVE TopBit(_)
TopBit(m) == IF m < 2 THEN 0 ELSE 1 + TopBit(m \div 2)

\* binary.LittleEndian.PutUint32(_, math.Float32bits(v)) for v = <<sign, m, e>>.
Float32bitsLE(f) ==
    LET sign == f[1]
        m == f[2]
        p == TopBit(m)
        E == f[3] + p + 127
        frac == (m - Pow2(p)) * Pow2(23 - p)
    IN  IF m = 0 THEN <<0, 0, 0, sign * 128>>
        ELSE << frac % 256,
                (frac \div 256) % 256,
                ((E % 2) * 128) + (frac \div 65536),
                (sign * 128) + (E \div 2) >>

\* binary.LittleEndian.PutUint64(_, math.Float64bits(v)) for v = <<sign, m, e>>.
\* The low 32 bits of the 52-bit fraction are zero for m < 256.
Float64bitsLE(f) ==
    LET sign == f[1]
        m == f[2]
        p == TopBit(m)
        E == f[3] + p + 1023
        frac20 == (m - Pow2(p)) * Pow2(20 - p)
    IN  IF m = 0 THEN <<0, 0, 0, 0, 0, 0, 0, sign * 128>>
        ELSE << 0, 0, 0, 0,
                frac20 % 256,
                (frac20 \div 256) % 256,
                ((E % 16) * 16) + (frac20 \div 65536),
                (sign * 128) + (E \div 16) >>

RECURSIVE Digits(_)
\* The decimal digits of n >= 0 as ASCII bytes.
Digits(n) ==
    IF n < 10 THEN <<48 + n>> ELSE Digits(n \div 10) \o <<48 + (n % 10)>>

\* fmt.Sprintf("%v", v) for the platform-width int and uint.
Sprintf(v) == IF v.n < 0 THEN <<45>> \o Digits(-v.n) ELSE Digits(v.n)

encodeKey(key) == appendString(<<26>>, key)

\* encodeValue with the signed integer written under tag byte 32 (field 4)
\* and the boolean under tag byte 48 (field 6).
encodeValueField4And6(v) ==
    LET w == CASE v.t \in {"string", "uint64", "float32", "float64", "int64", "bool"} -> v
               [] v.t \in {"uint8", "uint16", "uint32"} -> IntVal("uint64", v.n)
               [] v.t \in {"int8", "int16", "int32"}    -> IntVal("int64", v.n)
               [] v.t = "bytes"                         -> StringVal(v.s)
               [] OTHER                                 -> StringVal(Sprintf(v))
        vpb == CASE w.t = "string"  -> <<10>> \o appendString(<<>>, w.s)
                 [] w.t = "uint64"  -> <<40>> \o appendUvarint(<<>>, w.n)
                 [] w.t = "float32" -> <<21>> \o Float32bitsLE(w.f)
                 [] w.t = "float64" -> <<25>> \o Float64bitsLE(w.f)
                 [] w.t = "int64"   -> appendVarint(<<32>>, w.n)
                 [] w.t = "bool"    -> IF w.n = 1 THEN <<48, 1>> ELSE <<48, 0>>
    IN  appendUvarint(<<34>>, Len(vpb)) \o vpb

RECURSIVE encodeValue(_)
encodeValue(v) ==
    IF v.t \in {"string", "uint64", "float32", "float64", "int64", "bool"}
    THEN LET vpb ==
                 CASE v.t = "string"  -> <<10>> \o appendString(<<>>, v.s)
                   [] v.t = "uint64"  -> <<40>> \o appendUvarint(<<>>, v.n)
                   [] v.t = "float32" -> <<21>> \o Float32bitsLE(v.f)
                   [] v.t = "float64" -> <<25>> \o Float64bitsLE(v.f)
                   [] v.t = "int64"   -> appendVarint(<<48>>, v.n)
                   [] v.t = "bool"    -> IF v.n = 1 THEN <<56, 1>> ELSE <<56, 0>>
         IN  appendUvarint(<<34>>, Len(vpb)) \o vpb
    ELSE CASE v.t \in {"uint8", "uint16", "uint32"} -> encodeValue(IntVal("uint64", v.n))
           [] v.t \in {"int8", "int16", "int32"}    -> encodeValue(IntVal("int64", v.n))
           [] v.t = "bytes"                         -> encodeValue(StringVal(v.s))
           [] OTHER                                 -> encodeValue(StringVal(Sprintf(v)))

-----------------------------------------------------------------------------
(* Layer.collectTags                                                       *)

\* collectTag without the two map lookups: every tag gets a new key entry and
\* a new value entry.
collectTagNoLookup(st, tag) ==
    [st EXCEPT !.tagidxs = @ \o <<st.keyidx, st.validx>>,
               !.keyidx = @ + 1,
               !.validx = @ + 1,
               !.keysa = Append(@, encodeKey(tag.key)),
               !.valsa = Append(@, encodeValue(tag.val))]

\* One iteration of the inner loop: look the serialized key and value up in
\* the maps, insert when absent, and record the two indices.
collectTag(st, tag) ==
    LET key == encodeKey(tag.key)
        st1 == IF key \notin DOMAIN st.keys
               THEN [st EXCEPT !.tagidxs = Append(@, st.keyidx),
                               !.keys = [k \in DOMAIN st.keys \cup {key} |->
                                            IF k = key THEN st.keyidx ELSE st.keys[k]],
                               !.keyidx = @ + 1,
                               !.keysa = Append(@, key)]
               ELSE [st EXCEPT !.tagidxs = Append(@, st.keys[key])]
        val == encodeValue(tag.val)
    IN  IF val \notin DOMAIN st1.vals
        THEN [st1 EXCEPT !.tagidxs = Append(@, st1.validx),
                         !.vals = [k \in DOMAIN st1.vals \cup {val} |->
                                      IF k = val THEN st1.validx ELSE st1.vals[k]],
                         !.validx = @ + 1,
                         !.valsa = Append(@, val)]
        ELSE [st1 EXCEPT !.tagidxs = Append(@, st1.vals[val])]

RECURSIVE collectFeatureTags(_, _, _)
collectFeatureTags(st, tags, i) ==
    IF Evaluated(st) /\ i > Len(tags) THEN st
    ELSE collectFeatureTags(collectTag(st, tags[i]), tags, i + 1)

RECURSIVE collectLoop(_, _, _)
collectLoop(st, features, i) ==
    IF Evaluated(st) /\ i > Len(features) THEN st
    ELSE collectLoop(collectFeatureTags(st, features[i].tags, 1), features, i + 1)

collectTags(l) ==
    collectLoop([keys |-> <<>>, vals |-> <<>>, keyidx |-> 0, validx |-> 0,
                 keysa |-> <<>>, valsa |-> <<>>, tagidxs |-> <<>>],
                l.features, 1)

-----------------------------------------------------------------------------
(* Feature.append                                                          *)

\* Scale with the quotient rounded down instead of toward zero.
ScaleFloor(v, extent) == (v * extent) \div TileSize

\* int64(v / 256.0 * extent): conversion truncates toward zero.
Scale(v, extent) ==
    IF v * extent < 0 THEN -((-(v * extent)) \div TileSize)
    ELSE (v * extent) \div TileSize

RECURSIVE appendTagIdxsNoAdvance(_, _, _)
\* appendTagIdxs without tagidxs = tagidxs[2:] inside the loop: the slice is
\* taken once, after the loop.
appendTagIdxsNoAdvance(pb, tagidxs, n) ==
    IF Evaluated(pb) /\ n = 0
    THEN [pb |-> pb, tagidxs |-> tagidxs]
    ELSE LET r == appendTagIdxsNoAdvance(
                      appendUvarint(appendUvarint(pb, tagidxs[1]), tagidxs[2]),
                      tagidxs, n - 1)
         IN  [pb |-> r.pb, tagidxs |-> SubSeq(r.tagidxs, 3, Len(r.tagidxs))]

RECURSIVE appendTagIdxs(_, _, _)
\* for range f.tags { two appendUvarint; tagidxs = tagidxs[2:] }
appendTagIdxs(pb, tagidxs, n) ==
    IF Evaluated(pb) /\ Evaluated(tagidxs) /\ n = 0
    THEN [pb |-> pb, tagidxs |-> tagidxs]
    ELSE appendTagIdxs(appendUvarint(appendUvarint(pb, tagidxs[1]), tagidxs[2]),
                       SubSeq(tagidxs, 3, Len(tagidxs)), n - 1)

\* runCount without the scan: every operation is a run of its own.
runCountOne(geometry, i, j) == 1

RECURSIVE runCount(_, _, _)
\* count := 1; for j := i + 1; ...; if which differs, break; count++
runCount(geometry, i, j) ==
    IF j > Len(geometry) \/ geometry[j].which # geometry[i].which THEN 1
    ELSE 1 + runCount(geometry, i, j + 1)

RECURSIVE appendCoords(_, _, _, _, _, _, _)
\* The inner loop over the count operations of a moveTo / lineTo run.
appendCoords(gpb, geometry, i, j, count, last, extent) ==
    IF Evaluated(gpb) /\ Evaluated(last) /\ j >= count
    THEN [gpb |-> gpb, last |-> last]
    ELSE LET x == Scale(geometry[i + j].x, extent)
             y == Scale(geometry[i + j].y, extent)
         IN  appendCoords(appendVarint(appendVarint(gpb, x - last[1]), y - last[2]),
                          geometry, i, j + 1, count, <<x, y>>, extent)

RECURSIVE geometryLoop(_, _, _, _, _)
\* for i := 0; i < len(f.geometry); { ... } (1-based here)
geometryLoop(gpb, geometry, i, last, extent) ==
    IF Evaluated(gpb) /\ Evaluated(last) /\ i > Len(geometry) THEN gpb
    ELSE LET count == runCount(geometry, i, i + 1)
             which == geometry[i].which
             g1 == appendUvarint(gpb, commandInteger(which, count))
         IN  IF which \in {moveTo, lineTo}
             THEN LET r == appendCoords(g1, geometry, i, 0, count, last, extent)
                  IN  geometryLoop(r.gpb, geometry, i + count, r.last, extent)
             ELSE geometryLoop(g1, geometry, i + 1, last, extent)

\* encodeGeometry without the implicit leading MoveTo.
encodeGeometryAsGiven(geometry, extent) ==
    geometryLoop(<<>>, geometry, 1, <<0, 0>>, extent)

encodeGeometry(geometry, extent) ==
    LET g0 == IF geometry[1].which # moveTo
              THEN appendVarint(appendVarint(
                       appendUvarint(<<>>, commandInteger(moveTo, 1)), 0), 0)
              ELSE <<>>
    IN  geometryLoop(g0, geometry, 1, <<0, 0>>, extent)

FeatureAppend(f, vpb, tagidxs, extent) ==
    LET pb1 == IF f.hasID THEN appendUvarint(<<8>>, f.id) ELSE <<>>
        t == IF Len(f.tags) > 0
             THEN appendTagIdxs(appendUvarint(pb1 \o <<18>>, Len(f.tags) * 2),
                                tagidxs, Len(f.tags))
             ELSE [pb |-> pb1, tagidxs |-> tagidxs]
        pb3 == IF f.geomType = Unknown THEN t.pb
               ELSE appendUvarint(t.pb \o <<24>>, f.geomType)
        pb4 == IF Len(f.geometry) > 0
               THEN LET gpb == encodeGeometry(f.geometry, extent)
                    IN  appendUvarint(pb3 \o <<34>>, Len(gpb)) \o gpb
               ELSE pb3
    IN  [pb |-> appendUvarint(vpb \o <<18>>, Len(pb4)) \o pb4,
         tagidxs |-> t.tagidxs]

-----------------------------------------------------------------------------
(* Layer.append and Tile.Render                                            *)

RECURSIVE featuresLoop(_, _, _, _, _)
featuresLoop(pb, tagidxs, features, i, extent) ==
    IF Evaluated(pb) /\ Evaluated(tagidxs) /\ i > Len(features)
    THEN [pb |-> pb, tagidxs |-> tagidxs]
    ELSE LET r == FeatureAppend(features[i], pb, tagidxs, extent)
         IN  featuresLoop(r.pb, r.tagidxs, features, i + 1, extent)

RECURSIVE ConcatRange(_, _, _)
\* ss[lo] \o ... \o ss[hi], by halves.
ConcatRange(ss, lo, hi) ==
    IF lo > hi THEN <<>>
    ELSE IF lo = hi THEN ss[lo]
    ELSE LET mid == (lo + hi) \div 2
         IN  ConcatRange(ss, lo, mid) \o ConcatRange(ss, mid + 1, hi)

\* for _, v := range ss { pb = append(pb, v...) }
Concat(ss) == ConcatRange(ss, 1, Len(ss))

layerExtent(l) == IF l.hasExtent THEN l.extent ELSE DefaultExtent

LayerAppend(l, vpb) ==
    LET ct == collectTags(l)
        pb1 == IF Len(l.name) > 0
               THEN appendUvarint(<<10>>, Len(l.name)) \o l.name
               ELSE <<>>
        fr == featuresLoop(pb1, ct.tagidxs, l.features, 1, layerExtent(l))
        pb3 == fr.pb \o Concat(ct.keysa) \o Concat(ct.valsa)
        pb4 == IF l.hasExtent /\ l.extent # DefaultExtent
               THEN appendUvarint(pb3 \o <<40>>, l.extent)
               ELSE pb3
        pb == pb4 \o <<120, 2>>
    IN  appendUvarint(vpb \o <<26>>, Len(pb)) \o pb

RECURSIVE renderLoop(_, _, _)
renderLoop(pb, ls, i) ==
    IF Evaluated(pb) /\ i > Len(ls) THEN pb
    ELSE renderLoop(LayerAppend(ls[i], pb), ls, i + 1)

\* TileRender that returns after the first layer.
TileRenderFirstLayer(ls) == IF ls = <<>> THEN <<>> ELSE LayerAppend(ls[1], <<>>)

TileRender(ls) == renderLoop(<<>>, ls, 1)

-----------------------------------------------------------------------------
(* The builder operations and Render                                       *)

\* The encoder never reads a layer's z, x, y and rect: they are left out.
NewLayer(name) ==
    [name |-> name, features |-> <<>>, extent |-> 0, hasExtent |-> FALSE]

NewFeature(geomType) ==
    [geomType |-> geomType, id |-> 0, hasID |-> FALSE, tags |-> <<>>,
     geometry |-> <<>>]

\* A builder call returns no bytes: out holds the bytes returned by the last
\* call when that call was Render, and rendered says that it was.
Init == layers = <<>> /\ out = <<>> /\ rendered = FALSE

AddLayer(name) ==
    /\ layers' = Append(layers, NewLayer(name))
    /\ out' = <<>> /\ rendered' = FALSE

SetExtent(li, extent) ==
    /\ li \in DOMAIN layers
    /\ layers' = [layers EXCEPT ![li].extent = extent, ![li].hasExtent = TRUE]
    /\ out' = <<>> /\ rendered' = FALSE

AddFeature(li, geomType) ==
    /\ li \in DOMAIN layers
    /\ layers' = [layers EXCEPT ![li].features = Append(@, NewFeature(geomType))]
    /\ out' = <<>> /\ rendered' = FALSE

SetID(li, fi, id) ==
    /\ li \in DOMAIN layers /\ fi \in DOMAIN layers[li].features
    /\ layers' = [layers EXCEPT ![li].features[fi].id = id,
                                ![li].features[fi].hasID = TRUE]
    /\ out' = <<>> /\ rendered' = FALSE

AddTag(li, fi, key, value) ==
    /\ li \in DOMAIN layers /\ fi \in DOMAIN layers[li].features
    /\ layers' = [layers EXCEPT ![li].features[fi].tags =
                                    Append(@, [key |-> key, val |-> value])]
    /\ out' = <<>> /\ rendered' = FALSE

appendCommand(li, fi, which, x, y) ==
    /\ li \in DOMAIN layers /\ fi \in DOMAIN layers[li].features
    /\ layers' = [layers EXCEPT ![li].features[fi].geometry =
                                    Append(@, [which |-> which, x |-> x, y |-> y])]
    /\ out' = <<>> /\ rendered' = FALSE

MoveTo(li, fi, x, y) == appendCommand(li, fi, moveTo, x, y)

LineTo(li, fi, x, y) == appendCommand(li, fi, lineTo, x, y)

ClosePath(li, fi) == appendCommand(li, fi, closePath, 0, 0)

Render ==
    /\ out' = TileRender(layers)
    /\ rendered' = TRUE
    /\ UNCHANGED layers

-----------------------------------------------------------------------------
(* Sizes of the graph, for the bounds                                      *)

RECURSIVE SumSeq(_)
SumSeq(s) == IF s = <<>> THEN 0 ELSE Head(s) + SumSeq(Tail(s))

NumFeatures == SumSeq([i \in DOMAIN layers |-> Len(layers[i].features)])

LayerTags(l) == SumSeq([i \in DOMAIN l.features |-> Len(l.features[i].tags)])

LayerOps(l) == SumSeq([i \in DOMAIN l.features |-> Len(l.features[i].geometry)])

NumTags == SumSeq([i \in DOMAIN layers |-> LayerTags(layers[i])])

NumOps == SumSeq([i \in DOMAIN layers |-> LayerOps(layers[i])])

\* Layer and feature positions of the graph.
FeatureIds == {<<li, fi>> \in (1..Len(layers)) \X (1..NumFeatures) :
                  fi <= Len(layers[li].features)}

-----------------------------------------------------------------------------
(* A reader of the wire format, used to state the properties on the bytes  *)
(* that Render returns.  It is written from the format (protobuf wire      *)
(* types, the vector tile schema), not from the encoder.                   *)

RECURSIVE ReadUvarint(_, _)
\* The varint that starts at position i of b, and the position after it.
ReadUvarint(b, i) ==
    IF i > Len(b) THEN [ok |-> FALSE, val |-> 0, next |-> i]
    ELSE IF b[i] < 128 THEN [ok |-> TRUE, val |-> b[i], next |-> i + 1]
    ELSE LET r == ReadUvarint(b, i + 1)
         IN  [ok |-> r.ok, val |-> (b[i] - 128) + (128 * r.val), next |-> r.next]

UnZigZag(u) == IF u % 2 = 0 THEN u \div 2 ELSE -((u + 1) \div 2)

Field(num, wt, val, payload) ==
    [num |-> num, wt |-> wt, val |-> val, payload |-> payload]

\* The field that starts at position i of b: a key varint (number * 8 + wire
\* type) and, by wire type, a varint (0), 8 bytes (1), a length-prefixed
\* payload (2) or 4 bytes (5).  ok iff such a field lies within b.
ReadField(b, i) ==
    LET k == ReadUvarint(b, i)
        num == k.val \div 8
        wt == k.val % 8
        Bad == [ok |-> FALSE, field |-> Field(0, 0, 0, <<>>), next |-> i]
        Fixed(n) == IF k.next + n - 1 > Len(b) THEN Bad
                    ELSE [ok |-> TRUE,
                          field |-> Field(num, wt, 0, SubSeq(b, k.next, k.next + n - 1)),
                          next |-> k.next + n]
    IN  IF ~k.ok THEN Bad
        ELSE CASE wt = 0 ->
                    LET v == ReadUvarint(b, k.next)
                    IN  IF ~v.ok THEN Bad
                        ELSE [ok |-> TRUE, field |-> Field(num, wt, v.val, <<>>),
                              next |-> v.next]
               [] wt = 2 ->
                    LET n == ReadUvarint(b, k.next)
                    IN  IF ~n.ok \/ n.next + n.val - 1 > Len(b) THEN Bad
                        ELSE [ok |-> TRUE,
                              field |-> Field(num, wt, n.val,
                                              SubSeq(b, n.next, n.next + n.val - 1)),
                              next |-> n.next + n.val]
               [] wt = 1 -> Fixed(8)
               [] wt = 5 -> Fixed(4)
               [] OTHER -> Bad

RECURSIVE ReadFields(_, _, _)
\* At most n fields from position i of b, and the position after them.
ReadFields(b, i, n) ==
    IF i > Len(b) \/ n = 0 THEN [ok |-> TRUE, fields |-> <<>>, next |-> i]
    ELSE LET f == ReadField(b, i)
             r == ReadFields(b, f.next, n - 1)
         IN  IF ~f.ok THEN [ok |-> FALSE, fields |-> <<>>, next |-> i]
             ELSE [ok |-> r.ok, fields |-> <<f.field>> \o r.fields, next |-> r.next]

RECURSIVE ParseFields(_, _, _)
\* All the fields of the message b[i..] after the fields read so far, read
\* sixteen at a time.  ok iff the fields end exactly at the end of b.
ParseFields(b, i, fields) ==
    IF Evaluated(fields) /\ i > Len(b) THEN [ok |-> TRUE, fields |-> fields]
    ELSE LET c == ReadFields(b, i, 16)
         IN  IF ~c.ok THEN [ok |-> FALSE, fields |-> <<>>]
             ELSE ParseFields(b, c.next, fields \o c.fields)

Message(b) == ParseFields(b, 1, <<>>)

RECURSIVE SelectRange(_, _, _, _)
SelectRange(fields, num, lo, hi) ==
    IF lo > hi THEN <<>>
    ELSE IF lo = hi THEN (IF fields[lo].num = num THEN <<fields[lo]>> ELSE <<>>)
    ELSE LET mid == (lo + hi) \div 2
         IN  SelectRange(fields, num, lo, mid) \o SelectRange(fields, num, mid + 1, hi)

\* The fields of number num, in order.
SelectNum(fields, num) == SelectRange(fields, num, 1, Len(fields))

RECURSIVE ReadVarints(_, _, _)
\* n varints read one after the other from position i of b.
ReadVarints(b, i, n) ==
    IF n = 0 THEN [ok |-> TRUE, vals |-> <<>>, next |-> i]
    ELSE LET v == ReadUvarint(b, i)
             r == ReadVarints(b, v.next, n - 1)
         IN  IF ~v.ok THEN [ok |-> FALSE, vals |-> <<>>, next |-> i]
             ELSE [ok |-> r.ok, vals |-> <<v.val>> \o r.vals, next |-> r.next]

RECURSIVE ReadPacked(_, _)
\* All the varints of a packed field's payload.
ReadPacked(b, i) ==
    IF i > Len(b) THEN [ok |-> TRUE, vals |-> <<>>]
    ELSE LET v == ReadUvarint(b, i)
             r == ReadPacked(b, v.next)
         IN  IF ~v.ok THEN [ok |-> FALSE, vals |-> <<>>]
             ELSE [ok |-> r.ok, vals |-> <<v.val>> \o r.vals]

\* A feature submessage read field by field in schema order: id (1, varint),
\* tags (2, packed), type (3, varint), geometry (4, packed).  The tags are
\* read as the 2 * ntags varints that follow the field's length prefix, so
\* that tagsDeclared (the prefix) and tagsBytes (the bytes the indices take)
\* can be compared.  ok iff the fields end exactly at the end of b.
FeatureView(b, ntags) ==
    LET hasId == 1 <= Len(b) /\ b[1] = 8
        id == IF hasId THEN ReadUvarint(b, 2)
              ELSE [ok |-> TRUE, val |-> 0, next |-> 1]
        p1 == id.next
        hasTags == p1 <= Len(b) /\ b[p1] = 18
        tlen == IF hasTags THEN ReadUvarint(b, p1 + 1)
                ELSE [ok |-> TRUE, val |-> 0, next |-> p1]
        tags == IF hasTags THEN ReadVarints(b, tlen.next, 2 * ntags)
                ELSE [ok |-> TRUE, vals |-> <<>>, next |-> p1]
        p2 == tags.next
        hasType == p2 <= Len(b) /\ b[p2] = 24
        type == IF hasType THEN ReadUvarint(b, p2 + 1)
                ELSE [ok |-> TRUE, val |-> 0, next |-> p2]
        p3 == type.next
        hasGeom == p3 <= Len(b) /\ b[p3] = 34
        glen == IF hasGeom THEN ReadUvarint(b, p3 + 1)
                ELSE [ok |-> TRUE, val |-> 0, next |-> p3]
        p4 == IF hasGeom THEN glen.next + glen.val ELSE p3
    IN  [ok |-> id.ok /\ tlen.ok /\ tags.ok /\ type.ok /\ glen.ok /\ p4 = Len(b) + 1,
         hasId |-> hasId, id |-> id.val,
         hasTags |-> hasTags, tagsDeclared |-> tlen.val,
         tagsBytes |-> tags.next - tlen.next, tags |-> tags.vals,
         hasType |-> hasType, type |-> type.val,
         hasGeom |-> hasGeom,
         geom |-> IF hasGeom /\ glen.ok /\ p4 <= Len(b) + 1
                  THEN SubSeq(b, glen.next, p4 - 1) ELSE <<>>]

RECURSIVE ReadCommands(_, _)
\* The commands of a geometry stream g (a sequence of integers): a command
\* integer (id in the low 3 bits, count above), followed for MoveTo and
\* LineTo by count zigzag pairs, and by nothing for ClosePath.
ReadCommands(g, i) ==
    IF i > Len(g) THEN [ok |-> TRUE, cmds |-> <<>>]
    ELSE LET id == g[i] % 8
             count == g[i] \div 8
             n == IF id \in {1, 2} THEN 2 * count ELSE 0
             r == ReadCommands(g, i + 1 + n)
         IN  IF id \notin {1, 2, 7} \/ i + n > Len(g)
             THEN [ok |-> FALSE, cmds |-> <<>>]
             ELSE [ok |-> r.ok,
                   cmds |-> << [id |-> id, count |-> count,
                                params |-> [j \in 1..n |-> UnZigZag(g[i + j])]] >>
                            \o r.cmds]

\* The commands of a geometry payload.
Commands(geom) ==
    LET p == ReadPacked(geom, 1)
    IN  IF p.ok THEN ReadCommands(p.vals, 1) ELSE [ok |-> FALSE, cmds |-> <<>>]

\* The layer submessages of the tile out, and what a layer submessage holds.
TileLayers(b) == Message(b)

LayerView(b) ==
    LET m == Message(b)
    IN  [ok |-> m.ok,
         fields |-> m.fields,
         names |-> SelectNum(m.fields, 1),
         features |-> SelectNum(m.fields, 2),
         keys |-> SelectNum(m.fields, 3),
         values |-> SelectNum(m.fields, 4),
         extents |-> SelectNum(m.fields, 5),
         versions |-> SelectNum(m.fields, 15)]

\* The view of layer li of the rendered tile (out is a Render result).
OutLayer(li) == LayerView(TileLayers(out).fields[li].payload)

\* out parses as one length-delimited field 3 per layer of the graph, each a
\* well-formed layer message with one feature field per feature.
OutShape ==
    /\ TileLayers(out).ok
    /\ Len(TileLayers(out).fields) = Len(layers)
    /\ \A li \in DOMAIN layers :
          /\ TileLayers(out).fields[li].num = 3
          /\ TileLayers(out).fields[li].wt = 2
          /\ OutLayer(li).ok
          /\ Len(OutLayer(li).features) = Len(layers[li].features)

\* The view of feature fi of layer li of the rendered tile.
OutFeature(li, fi) ==
    FeatureView(OutLayer(li).features[fi].payload, Len(layers[li].features[fi].tags))

-----------------------------------------------------------------------------
(* Bounds and inputs                                                       *)

\* Spec: builder calls are made while the graph holds fewer than MaxSize
\* items (layers, features, tags, operations, set extents, set ids).
MaxSize == 5

\* SpecGeom: one layer, at most GeomMaxFeatures features holding at most
\* GeomMaxOps geometry operations in all.
GeomMaxFeatures == 2
GeomMaxOps == 4

\* SpecTags: one layer, at most TagMaxFeatures features holding at most
\* TagMaxTags tags in all.
TagMaxFeatures == 2
TagMaxTags == 3

\* SpecValue: one feature with at most ValMaxTags tags.
ValMaxTags == 2

\* SpecWide: at most WideMaxFeatures features of WideTagsPer tags each, every
\* tag with a value of its own.
WideMaxFeatures == 9
WideTagsPer == 16

KeyA == <<97>>
KeyB == <<98>>
Str5 == <<53>>

\* Layer names: "" and "t".
Names == {<<>>, <<116>>}

Extents == {DefaultExtent, 512}

GeomExtents == {100}

Ids == {1, 300}

\* Points: coordinates within the 256 x 256 canvas and outside it.
MovePoints == {<<200, -5>>}
LinePoints == {<<-1, 2>>}

\* uint64(1) and uint8(1) serialize to the same bytes; the string "1" does not.
TagVals == {IntVal("uint64", 1), IntVal("uint8", 1), StringVal(<<49>>)}

\* A value of every dynamic type that encodeValue tells apart.
Values ==
    {StringVal(Str5), StringVal(<<>>), StringVal(<<45, 51>>), BytesVal(Str5)}
    \cup {IntVal("uint64", 5), IntVal("uint64", 200)}
    \cup {IntVal(t, 5) : t \in {"uint32", "uint16", "uint8", "uint"}}
    \cup {IntVal("int64", 5), IntVal("int64", -3), IntVal("int", 5), IntVal("int", -3)}
    \cup {IntVal(t, -3) : t \in {"int32", "int16", "int8"}}
    \cup {BoolVal(TRUE), BoolVal(FALSE)}
    \cup {FloatVal(t, sg, 3, -1) : t \in {"float32", "float64"}, sg \in {0, 1}}

Size ==
    Len(layers) + NumFeatures + NumTags + NumOps
    + Cardinality({li \in DOMAIN layers : layers[li].hasExtent})
    + Cardinality({p \in FeatureIds : layers[p[1]].features[p[2]].hasID})

-----------------------------------------------------------------------------
(* Spec: every builder operation and Render, interleaved                   *)

Next ==
    \/ \E name \in Names : Size < MaxSize /\ AddLayer(name)
    \/ \E li \in DOMAIN layers, e \in Extents : Size < MaxSize /\ SetExtent(li, e)
    \/ \E li \in DOMAIN layers, g \in {Unknown, Polygon} :
          Size < MaxSize /\ AddFeature(li, g)
    \/ \E p \in FeatureIds, id \in Ids : Size < MaxSize /\ SetID(p[1], p[2], id)
    \/ \E p \in FeatureIds, v \in {IntVal("uint64", 1), StringVal(Str5)} :
          Size < MaxSize /\ AddTag(p[1], p[2], KeyA, v)
    \/ \E p \in FeatureIds, q \in MovePoints :
          Size < MaxSize /\ MoveTo(p[1], p[2], q[1], q[2])
    \/ \E p \in FeatureIds, q \in MovePoints :
          Size < MaxSize /\ LineTo(p[1], p[2], q[1], q[2])
    \/ \E p \in FeatureIds : Size < MaxSize /\ ClosePath(p[1], p[2])
    \/ Render

Spec == Init /\ [][Next]_vars

(* SpecGeom: the geometry of the features of one layer                     *)

NextGeom ==
    \/ Len(layers) = 0 /\ AddLayer(<<116>>)
    \/ \E e \in GeomExtents :
          Len(layers) = 1 /\ ~layers[1].hasExtent /\ SetExtent(1, e)
    \/ Len(layers) = 1 /\ Len(layers[1].features) < GeomMaxFeatures
          /\ AddFeature(1, LineString)
    \/ \E p \in FeatureIds, q \in MovePoints :
          NumOps < GeomMaxOps /\ MoveTo(p[1], p[2], q[1], q[2])
    \/ \E p \in FeatureIds, q \in LinePoints :
          NumOps < GeomMaxOps /\ LineTo(p[1], p[2], q[1], q[2])
    \/ \E p \in FeatureIds : NumOps < GeomMaxOps /\ ClosePath(p[1], p[2])
    \/ Render

SpecGeom == Init /\ [][NextGeom]_vars

(* SpecTags: the tags of the features of one layer                         *)

NextTags ==
    \/ Len(layers) = 0 /\ AddLayer(<<116>>)
    \/ Len(layers) = 1 /\ Len(layers[1].features) < TagMaxFeatures
          /\ AddFeature(1, Point)
    \/ \E p \in FeatureIds, k \in {KeyA, KeyB}, v \in TagVals :
          NumTags < TagMaxTags /\ AddTag(p[1], p[2], k, v)
    \/ Render

SpecTags == Init /\ [][NextTags]_vars

(* SpecValue: tag values of every dynamic type, on one feature             *)

NextValue ==
    \/ Len(layers) = 0 /\ AddLayer(<<116>>)
    \/ Len(layers) = 1 /\ Len(layers[1].features) = 0 /\ AddFeature(1, Point)
    \/ \E p \in FeatureIds, v \in Values :
          NumTags < ValMaxTags /\ AddTag(p[1], p[2], KeyA, v)
    \/ Render

SpecValue == Init /\ [][NextValue]_vars

(* SpecWide: features filled one after the other with WideTagsPer tags,     *)
(* the n-th tag of the layer with the value uint64(n), so that the value   *)
(* indices pass 127.                                                       *)

LastFull ==
    IF Len(layers[1].features) = 0 THEN TRUE
    ELSE Len(layers[1].features[Len(layers[1].features)].tags) = WideTagsPer

NextWide ==
    \/ Len(layers) = 0 /\ AddLayer(<<116>>)
    \/ Len(layers) = 1 /\ Len(layers[1].features) < WideMaxFeatures /\ LastFull
          /\ AddFeature(1, Point)
    \/ /\ Len(layers) = 1 /\ ~LastFull
       /\ AddTag(1, Len(layers[1].features), KeyA, IntVal("uint64", NumTags))
    \/ Render

SpecWide == Init /\ [][NextWide]_vars

-----------------------------------------------------------------------------
(* What the graph says, for comparison with what the bytes say             *)

Feature(p) == layers[p[1]].features[p[2]]

\* The tags of layer l in feature order, then tag order.
FlatTags(l) == Concat([i \in DOMAIN l.features |-> l.features[i].tags])

\* The Value submessage of a tag value: the payload of its values field.
ValueMessage(v) == Message(encodeValue(v)).fields[1].payload

\* The key table and the value table that the rendered layer li carries.
KeyTable(li) == [j \in DOMAIN OutLayer(li).keys |-> OutLayer(li).keys[j].payload]

ValueTable(li) ==
    [j \in DOMAIN OutLayer(li).values |-> OutLayer(li).values[j].payload]

FirstIndex(xs, e) == CHOOSE k \in DOMAIN xs : xs[k] = e /\ \A m \in 1..(k - 1) : xs[m] # e

\* table lists every element of xs once, in the order of first appearance.
IsFirstSeen(table, xs) ==
    /\ \A i, j \in DOMAIN table : i # j => table[i] # table[j]
    /\ {table[i] : i \in DOMAIN table} = {xs[k] : k \in DOMAIN xs}
    /\ \A i, j \in DOMAIN table :
          i < j => FirstIndex(xs, table[i]) < FirstIndex(xs, table[j])

IntegerTypes ==
    {"uint64", "uint32", "uint16", "uint8", "uint",
     "int64", "int32", "int16", "int8", "int"}

-----------------------------------------------------------------------------
(* C1: in every rendered layer the key table and the value table list each *)
(* distinct serialized key, and each distinct serialized value, exactly    *)
(* once, in first-seen order (feature order, then tag order).              *)

C1_TablesDeduplicated ==
    rendered =>
        /\ OutShape
        /\ \A li \in DOMAIN layers :
              LET tags == FlatTags(layers[li])
              IN  /\ IsFirstSeen(KeyTable(li), [k \in DOMAIN tags |-> tags[k].key])
                  /\ IsFirstSeen(ValueTable(li),
                                 [k \in DOMAIN tags |-> ValueMessage(tags[k].val)])

\* A rendered layer with three tags, two of them with one key, and two of
\* them with values of different dynamic types that serialize alike.
C1_Witness ==
    /\ rendered
    /\ \E li \in DOMAIN layers :
          LET tags == FlatTags(layers[li])
          IN  /\ Len(tags) = 3
              /\ Len(KeyTable(li)) = 2
              /\ Len(ValueTable(li)) = 2
              /\ \E a, b \in DOMAIN tags :
                    /\ tags[a].val.t = "uint64" /\ tags[b].val.t = "uint8"
                    /\ ValueMessage(tags[a].val) = ValueMessage(tags[b].val)

-----------------------------------------------------------------------------
(* C2: the tags field of every encoded feature holds one (key index, value *)
(* index) pair per tag, in tag order, each index the position of the tag's *)
(* serialized key / value in the layer's tables; the features consume the  *)
(* layer's index stream two entries per tag, first in first out, and leave *)
(* it empty.                                                               *)

C2_TagIndexPairs ==
    rendered =>
        /\ OutShape
        /\ \A li \in DOMAIN layers :
              LET l == layers[li]
                  ct == collectTags(l)
              IN  /\ Len(ct.tagidxs) = 2 * LayerTags(l)
                  /\ featuresLoop(<<>>, ct.tagidxs, l.features, 1,
                                  layerExtent(l)).tagidxs = <<>>
        /\ \A p \in FeatureIds :
              LET f == Feature(p)
                  v == OutFeature(p[1], p[2])
                  keys == KeyTable(p[1])
                  values == ValueTable(p[1])
              IN  /\ v.ok
                  /\ v.hasTags <=> Len(f.tags) > 0
                  /\ Len(v.tags) = 2 * Len(f.tags)
                  /\ \A t \in DOMAIN f.tags :
                        /\ v.tags[(2 * t) - 1] + 1 \in DOMAIN keys
                        /\ keys[v.tags[(2 * t) - 1] + 1] = f.tags[t].key
                        /\ v.tags[2 * t] + 1 \in DOMAIN values
                        /\ values[v.tags[2 * t] + 1] = ValueMessage(f.tags[t].val)

\* A rendered layer whose first feature has no tag and whose second feature
\* has two tags, the second of them with the second key and the second value.
C2_Witness ==
    /\ rendered
    /\ Len(layers) = 1
    /\ Len(layers[1].features) = 2
    /\ Len(layers[1].features[1].tags) = 0
    /\ Len(layers[1].features[2].tags) = 2
    /\ OutFeature(1, 2).tags = <<0, 0, 1, 1>>

-----------------------------------------------------------------------------
(* C3: Render leaves the graph as it is; what it returns is the encoding   *)
(* of the graph at that moment (layer by layer, and read back: names,      *)
(* extents, versions, and per feature id, type, tags and geometry); and    *)
(* two Render calls in a row return the same bytes.                        *)

ExpectedTile == Concat([li \in DOMAIN layers |-> LayerAppend(layers[li], <<>>)])

GraphReflected ==
    /\ OutShape
    /\ \A li \in DOMAIN layers :
          LET l == layers[li]
              v == OutLayer(li)
          IN  /\ [j \in DOMAIN v.names |-> v.names[j].payload]
                    = IF l.name = <<>> THEN <<>> ELSE <<l.name>>
              /\ [j \in DOMAIN v.extents |-> v.extents[j].val]
                    = IF l.hasExtent /\ l.extent # 4096 THEN <<l.extent>> ELSE <<>>
              /\ [j \in DOMAIN v.versions |-> v.versions[j].val] = <<2>>
    /\ \A p \in FeatureIds :
          LET f == Feature(p)
              v == OutFeature(p[1], p[2])
          IN  /\ v.ok
              /\ v.hasId = f.hasID /\ (f.hasID => v.id = f.id)
              /\ v.hasType = (f.geomType # 0) /\ (v.hasType => v.type = f.geomType)
              /\ v.hasTags = (Len(f.tags) > 0)
              /\ v.hasGeom = (Len(f.geometry) > 0)

C3_RenderFrame ==
    /\ [](rendered => out = ExpectedTile /\ GraphReflected)
    /\ [][rendered' => layers' = layers /\ (rendered => out' = out)]_vars

\* A Render result for a graph with a named layer and a feature with an id,
\* a tag and a geometry operation.
C3_Witness ==
    /\ rendered
    /\ \E p \in FeatureIds :
          /\ layers[p[1]].name # <<>>
          /\ Feature(p).hasID
          /\ Len(Feature(p).tags) = 1
          /\ Len(Feature(p).geometry) = 1

-----------------------------------------------------------------------------
(* Geometry: the operations of a feature and the commands its bytes hold   *)

\* The commands read from the geometry field of feature p of the tile.
OutCommands(p) == Commands(OutFeature(p[1], p[2]).geom)

\* The feature's recorded operations do not start with a MoveTo.
StartsWithoutMoveTo(f) == Len(f.geometry) > 0 /\ f.geometry[1].which # 1

\* The commands of feature p that stand for its operations: all of them,
\* less the leading MoveTo(0, 0) the encoder adds on its own.
OpCommands(p) ==
    IF StartsWithoutMoveTo(Feature(p)) THEN Tail(OutCommands(p).cmds)
    ELSE OutCommands(p).cmds

CountSum(cmds, id) ==
    SumSeq([j \in DOMAIN cmds |-> IF cmds[j].id = id THEN cmds[j].count ELSE 0])

NumWhich(ops, which) == Cardinality({k \in DOMAIN ops : ops[k].which = which})

NumCommands(cmds, id) == Cardinality({j \in DOMAIN cmds : cmds[j].id = id})

\* The feature's geometry field is there, and reads as a command stream.
GeometryReadable(p) ==
    /\ OutFeature(p[1], p[2]).ok
    /\ OutFeature(p[1], p[2]).hasGeom = (Len(Feature(p).geometry) > 0)
    /\ OutCommands(p).ok
    /\ Len(Feature(p).geometry) > 0 => Len(OutCommands(p).cmds) >= 1

-----------------------------------------------------------------------------
(* C6: the command stream of a feature with operations starts with a       *)
(* MoveTo; when the first recorded operation is not a MoveTo, it starts    *)
(* with an added MoveTo of count 1 to (0, 0), followed by the commands of  *)
(* the recorded operations; otherwise nothing is added.                    *)

C6_ImplicitMoveTo ==
    rendered =>
        /\ OutShape
        /\ \A p \in FeatureIds :
              LET ops == Feature(p).geometry
                  cmds == OutCommands(p).cmds
              IN  /\ GeometryReadable(p)
                  /\ Len(ops) > 0 =>
                        /\ cmds[1].id = 1
                        /\ IF ops[1].which # 1
                           THEN /\ cmds[1] = [id |-> 1, count |-> 1, params |-> <<0, 0>>]
                                /\ Len(cmds) >= 2
                                /\ cmds[2].id = ops[1].which
                                /\ CountSum(cmds, 1) = NumWhich(ops, 1) + 1
                           ELSE CountSum(cmds, 1) = NumWhich(ops, 1)
                        /\ CountSum(cmds, 2) = NumWhich(ops, 2)
                        /\ NumCommands(cmds, 7) = NumWhich(ops, 7)
                        /\ OutFeature(p[1], p[2]).geom
                              = (IF ops[1].which # 1 THEN <<9, 0, 0>> ELSE <<>>)
                                \o geometryLoop(<<>>, ops, 1, <<0, 0>>,
                                                layerExtent(layers[p[1]]))

\* A rendered feature whose operations start with a LineTo and hold a MoveTo
\* later on.
C6_Witness ==
    /\ rendered
    /\ \E p \in FeatureIds :
          LET ops == Feature(p).geometry
          IN  /\ Len(ops) >= 2
              /\ ops[1].which = 2
              /\ NumWhich(ops, 1) = 1
              /\ Len(OutCommands(p).cmds) >= 3

-----------------------------------------------------------------------------
(* C8: every ClosePath operation is encoded as one command integer of      *)
(* count 1 (the value 15), without parameters.                             *)

C8_ClosePathCountOne ==
    rendered =>
        /\ OutShape
        /\ \A p \in FeatureIds :
              /\ GeometryReadable(p)
              /\ NumCommands(OutCommands(p).cmds, 7) = NumWhich(Feature(p).geometry, 7)
              /\ \A j \in DOMAIN OutCommands(p).cmds :
                    OutCommands(p).cmds[j].id = 7 =>
                        /\ OutCommands(p).cmds[j].count = 1
                        /\ OutCommands(p).cmds[j].params = <<>>

\* A rendered feature of two ClosePath operations: the first command integer
\* for them has count 2, the second count 1.
C8_Witness ==
    /\ rendered
    /\ \E p \in FeatureIds :
          /\ [k \in DOMAIN Feature(p).geometry |-> Feature(p).geometry[k].which] = <<7, 7>>
          /\ OutCommands(p).ok
          /\ [j \in DOMAIN OutCommands(p).cmds |->
                <<OutCommands(p).cmds[j].id, OutCommands(p).cmds[j].count>>]
                = <<<<1, 1>>, <<7, 2>>, <<7, 1>>>>

-----------------------------------------------------------------------------
(* C9: every maximal run of k consecutive MoveTo (or LineTo) operations is *)
(* encoded as one command with that id and count k, followed by 2k         *)
(* parameters; runs of different kinds are never merged.                   *)

RunStarts(ops) ==
    {a \in DOMAIN ops :
        /\ ops[a].which \in {1, 2}
        /\ a = 1 \/ ops[a - 1].which # ops[a].which}

\* The length of the maximal run of alike operations that starts at a.
RunLength(ops, a) ==
    CHOOSE k \in 1..(Len(ops) - a + 1) :
        /\ \A j \in a..(a + k - 1) : ops[j].which = ops[a].which
        /\ a + k <= Len(ops) => ops[a + k].which # ops[a].which

\* The start of the n-th run.
NthRunStart(ops, n) ==
    CHOOSE a \in RunStarts(ops) : Cardinality({b \in RunStarts(ops) : b < a}) = n - 1

C9_RunsGrouped ==
    rendered =>
        /\ OutShape
        /\ \A p \in FeatureIds :
              LET ops == Feature(p).geometry
                  runs == SelectSeq(OpCommands(p), LAMBDA c : c.id \in {1, 2})
              IN  /\ GeometryReadable(p)
                  /\ Len(runs) = Cardinality(RunStarts(ops))
                  /\ \A n \in DOMAIN runs :
                        /\ runs[n].id = ops[NthRunStart(ops, n)].which
                        /\ runs[n].count = RunLength(ops, NthRunStart(ops, n))
                        /\ Len(runs[n].params) = 2 * runs[n].count

\* A rendered feature with a MoveTo followed by a run of three LineTo.
C9_Witness ==
    /\ rendered
    /\ \E p \in FeatureIds :
          /\ [k \in DOMAIN Feature(p).geometry |-> Feature(p).geometry[k].which]
                = <<1, 2, 2, 2>>
          /\ Len(OutCommands(p).cmds) = 2
          /\ OutCommands(p).cmds[2].count = 3

-----------------------------------------------------------------------------
(* C10: the parameters of the MoveTo / LineTo commands are the differences *)
(* between successive scaled points, the scaled point being                *)
(* (x * extent / 256, y * extent / 256) truncated toward zero, with extent *)
(* 4096 unless set; the cursor starts at (0, 0) in every feature and runs  *)
(* on across commands.                                                     *)

Truncated(n, d) == IF n < 0 THEN -((-n) \div d) ELSE n \div d

ExtentOf(l) == IF l.hasExtent THEN l.extent ELSE 4096

\* The x (c = 1) or y (c = 2) parameters of the coordinate commands, in order.
Deltas(cmds, c) ==
    LET runs == SelectSeq(cmds, LAMBDA cmd : cmd.id \in {1, 2})
    IN  Concat([n \in DOMAIN runs |->
                   [k \in 1..runs[n].count |-> runs[n].params[(2 * (k - 1)) + c]]])

-----------------------------------------------------------------------------
(* Tag values: the Value submessage a tag's value index points at          *)

\* The fields of the value table entry that tag t of feature p refers to.
TagValueFields(p, t) ==
    Message(ValueTable(p[1])[OutFeature(p[1], p[2]).tags[2 * t] + 1]).fields

\* Every tag of the tile refers to a value table entry that is a well-formed
\* message of one field.
TagValuesReadable ==
    /\ OutShape
    /\ \A p \in FeatureIds :
          /\ OutFeature(p[1], p[2]).ok
          /\ Len(OutFeature(p[1], p[2]).tags) = 2 * Len(Feature(p).tags)
          /\ \A t \in DOMAIN Feature(p).tags :
                LET idx == OutFeature(p[1], p[2]).tags[2 * t] + 1
                IN  /\ idx \in DOMAIN ValueTable(p[1])
                    /\ Message(ValueTable(p[1])[idx]).ok
                    /\ Len(Message(ValueTable(p[1])[idx]).fields) = 1

\* The field of a Value submessage carries the value v.
Carries(field, v) ==
    CASE v.t = "string"  -> field.payload = v.s
      [] v.t = "float32" -> Len(field.payload) = 4
      [] v.t = "float64" -> Len(field.payload) = 8
      [] v.t = "int64"   -> UnZigZag(field.val) = v.n
      [] v.t = "uint64"  -> field.val = v.n
      [] v.t = "bool"    -> field.val = v.n /\ v.n \in {0, 1}

\* Every value of one of the six kinds is written under the field number and
\* wire type that table gives for its kind, and every value of whatever type
\* under one of the table's six pairs.
ValueFieldsFollow(table) ==
    /\ TagValuesReadable
    /\ \A p \in FeatureIds : \A t \in DOMAIN Feature(p).tags :
          LET v == Feature(p).tags[t].val
              field == TagValueFields(p, t)[1]
          IN  /\ <<field.num, field.wt>> \in {table[k] : k \in DOMAIN table}
              /\ v.t \in DOMAIN table =>
                    /\ <<field.num, field.wt>> = table[v.t]
                    /\ Carries(field, v)

\* The table of encodeValue's tag bytes 10, 21, 25, 48, 40, 56.
TableAsEncoded ==
    [t \in {"string", "float32", "float64", "int64", "uint64", "bool"} |->
        CASE t = "string"  -> <<1, 2>>
          [] t = "float32" -> <<2, 5>>
          [] t = "float64" -> <<3, 1>>
          [] t = "int64"   -> <<6, 0>>
          [] t = "uint64"  -> <<5, 0>>
          [] t = "bool"    -> <<7, 0>>]

\* The table with Int64 under field 4 and Bool under field 6.
TableField4And6 ==
    [TableAsEncoded EXCEPT !["int64"] = <<4, 0>>, !["bool"] = <<6, 0>>]

-----------------------------------------------------------------------------
(* C4, as the code has it: every tag value is serialized into a Value      *)
(* submessage of one field: String as field 1 length-delimited, Float32 as *)
(* field 2 32-bit, Float64 as field 3 64-bit, Int64 as field 6 zigzag      *)
(* varint, UInt64 as field 5 varint, Bool as field 7 varint 0/1.           *)

C4_ValueFieldsAsEncoded == rendered => ValueFieldsFollow(TableAsEncoded)

(* C4, as stated: the same with Int64 as field 4 and Bool as field 6.      *)

C4_ValueFieldsAsStated == rendered => ValueFieldsFollow(TableField4And6)

\* A rendered feature with a negative int64 tag value and a bool tag value.
C4_Witness ==
    /\ rendered
    /\ \E p \in FeatureIds :
          /\ Len(Feature(p).tags) = 2
          /\ Feature(p).tags[1].val = IntVal("int64", -3)
          /\ Feature(p).tags[2].val = BoolVal(TRUE)
          /\ TagValueFields(p, 1)[1].val = 5
          /\ TagValueFields(p, 2)[1].val = 1

-----------------------------------------------------------------------------
(* C5: a tag value of any integer type, the platform-width int and uint    *)
(* included, is encoded as an integer Value (a varint field holding the    *)
(* number), never as a string; within one layer a string tag value and an  *)
(* integer tag value never share a value table entry.                      *)

C5_IntegersNeverStrings ==
    rendered =>
        /\ TagValuesReadable
        /\ \A p \in FeatureIds : \A t \in DOMAIN Feature(p).tags :
              LET v == Feature(p).tags[t].val
                  field == TagValueFields(p, t)[1]
              IN  v.t \in IntegerTypes =>
                    /\ field.wt = 0
                    /\ field.num # 1
                    /\ IF v.t \in {"int64", "int32", "int16", "int8", "int"}
                       THEN UnZigZag(field.val) = v.n
                       ELSE field.val = v.n
        /\ \A p, q \in FeatureIds :
              \A t \in DOMAIN Feature(p).tags, u \in DOMAIN Feature(q).tags :
                 (/\ p[1] = q[1]
                  /\ Feature(p).tags[t].val.t = "string"
                  /\ Feature(q).tags[u].val.t \in IntegerTypes)
                 => OutFeature(p[1], p[2]).tags[2 * t] # OutFeature(q[1], q[2]).tags[2 * u]

\* A rendered feature with the tag values "5" and int 5: one value table
\* entry, the string "5", and the same value index for both tags.
C5_Witness ==
    /\ rendered
    /\ \E p \in FeatureIds :
          /\ Len(Feature(p).tags) = 2
          /\ Feature(p).tags[1].val = StringVal(Str5)
          /\ Feature(p).tags[2].val = IntVal("int", 5)
          /\ Len(ValueTable(p[1])) = 1
          /\ OutFeature(p[1], p[2]).tags = <<0, 0, 0, 0>>
          /\ TagValueFields(p, 2)[1].num = 1
          /\ TagValueFields(p, 2)[1].payload = Str5

-----------------------------------------------------------------------------
(* C7: every length-delimited field of the tile carries the number of      *)
(* payload bytes that follow it; in particular the length prefix of a      *)
(* feature's tags field is the number of bytes its index pairs take.       *)

C7_LengthPrefixesExact ==
    rendered =>
        /\ OutShape
        /\ \A li \in DOMAIN layers :
              /\ \A j \in DOMAIN OutLayer(li).names : OutLayer(li).names[j].wt = 2
              /\ \A j \in DOMAIN OutLayer(li).keys : OutLayer(li).keys[j].wt = 2
              /\ \A j \in DOMAIN OutLayer(li).values :
                    /\ OutLayer(li).values[j].wt = 2
                    /\ Message(OutLayer(li).values[j].payload).ok
        /\ \A p \in FeatureIds :
              /\ OutFeature(p[1], p[2]).ok
              /\ OutFeature(p[1], p[2]).hasTags =>
                    OutFeature(p[1], p[2]).tagsDeclared = OutFeature(p[1], p[2]).tagsBytes

\* A rendered feature whose sixteen tags have value indices of two bytes
\* each: the tags field declares 32 bytes and the index pairs take 48.
C7_Witness ==
    /\ rendered
    /\ \E p \in FeatureIds :
          /\ Len(Feature(p).tags) = 16
          /\ OutFeature(p[1], p[2]).ok
          /\ OutFeature(p[1], p[2]).tagsDeclared = 32
          /\ OutFeature(p[1], p[2]).tagsBytes = 48

====
